---- MODULE Spec2Model ----
(***************************************************************************)
(* The graph memory engine of exrl: MemoryGraph (src/tools/memory_graph.py)*)
(* and the module-level API write / update over the single global graph    *)
(* instance (src/tools/memory_tools.py).                                   *)
(*                                                                         *)
(* A node id (a uuid4 string in the code) is a positive integer here; the  *)
(* empty string "" is EmptyId, and NoSuchId is a non-empty id string that  *)
(* is never a key of MemoryGraph.nodes.  uuid4 ids cannot be guessed, so a *)
(* caller names only ids of nodes that exist, "" or an id of no node.      *)
(* A metadata argument is a record                                         *)
(* [kind, str, dict]: a Python str, a Python dict (an insertion-ordered    *)
(* list of <<key, value>> pairs) or None.  A missing connections argument  *)
(* (None) and the empty list take the same branch of every `if` in the     *)
(* code, so both are the empty sequence.                                   *)
(***************************************************************************)
EXTENDS Integers, Sequences, FiniteSets, TLC

VARIABLES
    nodes,                  \* MemoryGraph.nodes: id -> [id, metadata, edges]
    order,                  \* insertion order of the keys of MemoryGraph.nodes
    content_hash_to_id_map, \* MemoryGraph.content_hash_to_id_map
    bm25,                   \* the lexical index: MemoryGraph.bm25, corpus, id_list
    pre,                    \* the graph as it was when the last call started
    pre_bm25,               \* the lexical index as it was when the last call started
    last,                   \* the last call: which one, and what it returned
    env                     \* the MemoryToolEnv in front of the graph, and its last tool call

vars == <<nodes, order, content_hash_to_id_map, bm25, pre, pre_bm25, last, env>>

(***************************************************************************)
(* Bounds of the model.                                                    *)
(***************************************************************************)
MaxNodes == 2       \* nodes the graph of Spec may hold
MaxConnLen == 2     \* length of the connections list passed to write
MaxUpdateLen == 1   \* length of add_connections and of remove_connections
MaxBfsNodes == 3    \* nodes of the graphs bfs_exploration is applied to
MaxSeeds == 2       \* length of the start_nodes list
MaxDepth == 2       \* largest max_depth passed to bfs_exploration

Range(s) == {s[i] : i \in 1..Len(s)}
SeqsUpTo(S, n) == UNION {[1..k -> S] : k \in 0..n}

(***************************************************************************)
(* Identifiers.                                                            *)
(***************************************************************************)
EmptyId == 0
NoSuchId == (IF MaxNodes > MaxBfsNodes THEN MaxNodes ELSE MaxBfsNodes) + 1

(***************************************************************************)
(* Metadata values.                                                        *)
(***************************************************************************)
NoDict == << >>
StrMeta(s) == [kind |-> "str", str |-> s, dict |-> NoDict]
DictMeta(d) == [kind |-> "dict", str |-> "", dict |-> d]
NoneMeta == [kind |-> "none", str |-> "", dict |-> NoDict]

\* the metadata arguments the model passes to write and update
MetaArgs ==
    { StrMeta("a"),
      DictMeta(<< <<"content", "a">> >>),
      DictMeta(<< <<"cid", "a">> >>) }

\* `key in dict` and dict[key] of a dict held as a list of pairs
HasKey(d, k) == \E i \in 1..Len(d) : d[i][1] = k
Lookup(d, k) == d[CHOOSE i \in 1..Len(d) : d[i][1] = k][2]

\* str(d) of a dict of string keys and string values: "{'k': 'v', 'k2': 'v2'}"
RECURSIVE ReprItems(_, _)
ReprItems(d, i) ==
    IF i > Len(d) THEN ""
    ELSE (IF i > 1 THEN ", " ELSE "")
         \o "'" \o d[i][1] \o "': '" \o d[i][2] \o "'"
         \o ReprItems(d, i + 1)
ReprDict(d) == "{" \o ReprItems(d, 1) \o "}"

\* MemoryNode.__init__: what a new node stores for a metadata argument
NormalizeMetadata(metadata) ==
    IF metadata.kind = "str" THEN << <<"content", metadata.str>> >>
    ELSE metadata.dict

\* _get_hash that takes str(metadata) of every dict, "content" key or not
get_hash_repr_dicts(metadata) ==
    IF metadata.kind = "str" THEN metadata.str
    ELSE ReprDict(metadata.dict)

\* MemoryGraph._get_hash
get_hash(metadata) ==
    IF metadata.kind = "str" THEN metadata.str
    ELSE IF metadata.kind = "dict" /\ HasKey(metadata.dict, "content")
         THEN Lookup(metadata.dict, "content")
    ELSE ReprDict(metadata.dict)

\* _get_hash(node.metadata): the key of what a node stores
node_hash(node) == get_hash(DictMeta(node.metadata))

(***************************************************************************)
(* The graph as a value: what the operations read and return.              *)
(***************************************************************************)
Graph == [nodes |-> nodes, order |-> order, map |-> content_hash_to_id_map]
EmptyGraph == [nodes |-> << >>, order |-> << >>, map |-> << >>]

\* dict assignment d[k] = v, and del d[k]
Put(f, k, v) == [x \in DOMAIN f \cup {k} |-> IF x = k THEN v ELSE f[x]]
Del(f, k) == [x \in DOMAIN f \ {k} |-> f[x]]

\* uuid.uuid4(): an id no node has
NewId(g) == Len(g.order) + 1

(***************************************************************************)
(* MemoryNode and MemoryGraph.                                             *)
(***************************************************************************)
\* add_node without the duplicate check: every call creates a node
add_node_no_dedup(g, metadata) ==
    LET id == NewId(g)
        node == [id |-> id, metadata |-> NormalizeMetadata(metadata), edges |-> {}]
    IN [g |-> [nodes |-> Put(g.nodes, id, node),
               order |-> Append(g.order, id),
               map |-> Put(g.map, get_hash(metadata), id)],
        ret |-> id]

\* add_node that stores a new node under the id of the node created last
add_node_reuses_id(g, metadata) ==
    LET content_hash == get_hash(metadata) IN
    IF content_hash \in DOMAIN g.map
    THEN [g |-> g, ret |-> g.map[content_hash]]
    ELSE LET id == IF g.order = << >> THEN NewId(g) ELSE g.order[Len(g.order)]
             node == [id |-> id, metadata |-> NormalizeMetadata(metadata), edges |-> {}]
         IN [g |-> [nodes |-> Put(g.nodes, id, node),
                    order |-> IF g.order = << >> THEN <<id>> ELSE g.order,
                    map |-> Put(g.map, content_hash, id)],
             ret |-> id]

\* MemoryGraph.add_node
add_node(g, metadata) ==
    LET content_hash == get_hash(metadata) IN
    IF content_hash \in DOMAIN g.map
    THEN [g |-> g, ret |-> g.map[content_hash]]
    ELSE LET id == NewId(g)
             node == [id |-> id, metadata |-> NormalizeMetadata(metadata), edges |-> {}]
         IN [g |-> [nodes |-> Put(g.nodes, id, node),
                    order |-> Append(g.order, id),
                    map |-> Put(g.map, content_hash, id)],
             ret |-> id]

\* MemoryNode.add_edge
node_add_edge(node, target_node_id) ==
    [node EXCEPT !.edges = @ \cup {target_node_id}]

\* MemoryNode.remove_edge
node_remove_edge(node, target_node_id) ==
    IF target_node_id \in node.edges
    THEN [node EXCEPT !.edges = @ \ {target_node_id}]
    ELSE node

\* add_edge that checks the source only
add_edge_source_only(g, source_id, target_id) ==
    IF source_id \notin DOMAIN g.nodes
    THEN [g |-> g, ret |-> FALSE]
    ELSE [g |-> [g EXCEPT !.nodes[source_id] = node_add_edge(@, target_id)],
          ret |-> TRUE]

\* MemoryGraph.add_edge
add_edge(g, source_id, target_id) ==
    IF source_id \notin DOMAIN g.nodes \/ target_id \notin DOMAIN g.nodes
    THEN [g |-> g, ret |-> FALSE]
    ELSE [g |-> [g EXCEPT !.nodes[source_id] = node_add_edge(@, target_id)],
          ret |-> TRUE]

\* MemoryGraph.get_node(node_id) is a node (not None)
has_node(g, node_id) == node_id \in DOMAIN g.nodes

\* `for neighbor_id in current_node.edges`: a Python set is iterated in an order
\* the language does not fix; iter lists all ids in the order of one run
IterOrders == Permutations(1..(NoSuchId - 1))
InIterOrder(S, iter) == SelectSeq(iter, LAMBDA n : n \in S)

\* the loop with `depth > max_depth` for `depth >= max_depth`
RECURSIVE bfs_loop_off_by_one(_, _, _, _, _)
bfs_loop_off_by_one(g, queue, discovered, max_depth, iter) ==
    IF queue = << >> THEN discovered
    ELSE LET current_id == Head(queue)[1]
             depth == Head(queue)[2]
         IN IF depth > max_depth \/ ~has_node(g, current_id)
            THEN bfs_loop_off_by_one(g, Tail(queue), discovered, max_depth, iter)
            ELSE LET found == InIterOrder(g.nodes[current_id].edges \ discovered, iter)
                 IN bfs_loop_off_by_one(g,
                        Tail(queue) \o [i \in 1..Len(found) |-> <<found[i], depth + 1>>],
                        discovered \cup Range(found), max_depth, iter)

\* MemoryGraph.bfs_exploration, the `while queue` loop
RECURSIVE bfs_loop(_, _, _, _, _)
bfs_loop(g, queue, discovered, max_depth, iter) ==
    IF queue = << >> THEN discovered
    ELSE LET current_id == Head(queue)[1]
             depth == Head(queue)[2]
         IN IF depth >= max_depth
            THEN bfs_loop(g, Tail(queue), discovered, max_depth, iter)
            ELSE IF ~has_node(g, current_id)
            THEN bfs_loop(g, Tail(queue), discovered, max_depth, iter)
            ELSE LET found == InIterOrder(g.nodes[current_id].edges \ discovered, iter)
                 IN bfs_loop(g,
                             Tail(queue) \o [i \in 1..Len(found) |-> <<found[i], depth + 1>>],
                             discovered \cup Range(found), max_depth, iter)

\* the traversal that queues the first start node only
bfs_exploration_first_seed(g, start_nodes, max_depth, iter) ==
    bfs_loop(g, [i \in 1..(IF start_nodes = << >> THEN 0 ELSE 1) |-> <<start_nodes[i], 0>>],
             Range(start_nodes), max_depth, iter)

\* MemoryGraph.bfs_exploration
bfs_exploration(g, start_nodes, max_depth, iter) ==
    bfs_loop(g, [i \in 1..Len(start_nodes) |-> <<start_nodes[i], 0>>],
             Range(start_nodes), max_depth, iter)

(***************************************************************************)
(* memory_tools: write and update on the global graph.                     *)
(***************************************************************************)
\* the loop adding the edge target -> new node for new node -> target
RECURSIVE write_connections_reversed(_, _, _, _)
write_connections_reversed(g, node_id, connections, i) ==
    IF i > Len(connections) THEN g
    ELSE LET target_id == connections[i] IN
         write_connections_reversed(
             IF target_id # EmptyId THEN add_edge(g, target_id, node_id).g ELSE g,
             node_id, connections, i + 1)

\* the loop adding every named id to the edge set, node or not
RECURSIVE write_connections_unchecked(_, _, _, _)
write_connections_unchecked(g, node_id, connections, i) ==
    IF i > Len(connections) THEN g
    ELSE LET target_id == connections[i] IN
         write_connections_unchecked(
             IF target_id # EmptyId
             THEN [g EXCEPT !.nodes[node_id] = node_add_edge(@, target_id)]
             ELSE g,
             node_id, connections, i + 1)

\* write, the loop over connections
RECURSIVE write_connections(_, _, _, _)
write_connections(g, node_id, connections, i) ==
    IF i > Len(connections) THEN g
    ELSE LET target_id == connections[i] IN
         write_connections(
             IF target_id # EmptyId THEN add_edge(g, node_id, target_id).g ELSE g,
             node_id, connections, i + 1)

\* memory_tools.write
write(g, metadata, connections) ==
    LET r == add_node(g, metadata) IN
    [g |-> IF connections # << >>
           THEN write_connections(r.g, r.ret, connections, 1)
           ELSE r.g,
     ret |-> r.ret]

\* the metadata update that also empties the edge set of the node
update_metadata_drops_edges(g, node_id, metadata) ==
    LET node == g.nodes[node_id]
        old_hash == node_hash(node)
        new_metadata == IF metadata.kind = "str" THEN << <<"content", metadata.str>> >>
                        ELSE IF metadata.kind = "dict" THEN metadata.dict
                        ELSE node.metadata
        map1 == IF old_hash \in DOMAIN g.map THEN Del(g.map, old_hash) ELSE g.map
        new_hash == get_hash(DictMeta(new_metadata))
    IN [g EXCEPT !.nodes[node_id].metadata = new_metadata,
                 !.nodes[node_id].edges = {},
                 !.map = Put(map1, new_hash, node_id)]

\* the re-key that leaves the old key in the index
update_metadata_keeps_old_key(g, node_id, metadata) ==
    LET node == g.nodes[node_id]
        new_metadata == IF metadata.kind = "str" THEN << <<"content", metadata.str>> >>
                        ELSE IF metadata.kind = "dict" THEN metadata.dict
                        ELSE node.metadata
    IN [g EXCEPT !.nodes[node_id].metadata = new_metadata,
                 !.map = Put(g.map, get_hash(DictMeta(new_metadata)), node_id)]

\* the re-key that keeps the entry a key already has (first write wins)
update_metadata_first_wins(g, node_id, metadata) ==
    LET node == g.nodes[node_id]
        old_hash == node_hash(node)
        new_metadata == IF metadata.kind = "str" THEN << <<"content", metadata.str>> >>
                        ELSE IF metadata.kind = "dict" THEN metadata.dict
                        ELSE node.metadata
        map1 == IF old_hash \in DOMAIN g.map THEN Del(g.map, old_hash) ELSE g.map
        new_hash == get_hash(DictMeta(new_metadata))
    IN [g EXCEPT !.nodes[node_id].metadata = new_metadata,
                 !.map = IF new_hash \in DOMAIN map1 THEN map1
                         ELSE Put(map1, new_hash, node_id)]

\* update, "Update metadata if provided"
update_metadata(g, node_id, metadata) ==
    LET node == g.nodes[node_id]
        old_hash == node_hash(node)
        new_metadata == IF metadata.kind = "str" THEN << <<"content", metadata.str>> >>
                        ELSE IF metadata.kind = "dict" THEN metadata.dict
                        ELSE node.metadata
        map1 == IF old_hash \in DOMAIN g.map THEN Del(g.map, old_hash) ELSE g.map
        new_hash == get_hash(DictMeta(new_metadata))
    IN [g EXCEPT !.nodes[node_id].metadata = new_metadata,
                 !.map = Put(map1, new_hash, node_id)]

\* the loop adding every non-empty id, node or not
RECURSIVE update_add_connections_unchecked(_, _, _, _)
update_add_connections_unchecked(g, node_id, add_connections, i) ==
    IF i > Len(add_connections) THEN g
    ELSE LET target_id == add_connections[i] IN
         update_add_connections_unchecked(
             IF target_id # EmptyId
             THEN [g EXCEPT !.nodes[node_id] = node_add_edge(@, target_id)]
             ELSE g,
             node_id, add_connections, i + 1)

\* update, "Add new connections"
RECURSIVE update_add_connections(_, _, _, _)
update_add_connections(g, node_id, add_connections, i) ==
    IF i > Len(add_connections) THEN g
    ELSE LET target_id == add_connections[i] IN
         update_add_connections(
             IF target_id # EmptyId /\ target_id \in DOMAIN g.nodes
             THEN [g EXCEPT !.nodes[node_id] = node_add_edge(@, target_id)]
             ELSE g,
             node_id, add_connections, i + 1)

\* the loop that empties the edge set when it is given an id to remove
RECURSIVE update_remove_connections_all(_, _, _, _)
update_remove_connections_all(g, node_id, remove_connections, i) ==
    IF i > Len(remove_connections) THEN g
    ELSE update_remove_connections_all(
             [g EXCEPT !.nodes[node_id].edges = {}],
             node_id, remove_connections, i + 1)

\* update, "Remove connections"
RECURSIVE update_remove_connections(_, _, _, _)
update_remove_connections(g, node_id, remove_connections, i) ==
    IF i > Len(remove_connections) THEN g
    ELSE update_remove_connections(
             [g EXCEPT !.nodes[node_id] = node_remove_edge(@, remove_connections[i])],
             node_id, remove_connections, i + 1)

\* update that removes connections before it adds connections
update_removes_first(g, node_id, metadata, add_connections, remove_connections) ==
    IF ~has_node(g, node_id) THEN [g |-> g, ret |-> FALSE]
    ELSE LET g1 == IF metadata.kind # "none"
                   THEN update_metadata(g, node_id, metadata) ELSE g
             g2 == IF remove_connections # << >>
                   THEN update_remove_connections(g1, node_id, remove_connections, 1)
                   ELSE g1
             g3 == IF add_connections # << >>
                   THEN update_add_connections(g2, node_id, add_connections, 1) ELSE g2
         IN [g |-> g3, ret |-> TRUE]

\* update that returns whether it changed anything
update_true_on_change(g, node_id, metadata, add_connections, remove_connections) ==
    IF ~has_node(g, node_id) THEN [g |-> g, ret |-> FALSE]
    ELSE LET g1 == IF metadata.kind # "none"
                   THEN update_metadata(g, node_id, metadata) ELSE g
             g2 == IF add_connections # << >>
                   THEN update_add_connections(g1, node_id, add_connections, 1) ELSE g1
             g3 == IF remove_connections # << >>
                   THEN update_remove_connections(g2, node_id, remove_connections, 1)
                   ELSE g2
         IN [g |-> g3, ret |-> g3 # g]

\* update that re-keys the dedup index before it looks for the node
update_rekeys_missing(g, node_id, metadata, add_connections, remove_connections) ==
    IF ~has_node(g, node_id)
    THEN [g |-> IF metadata.kind # "none"
                THEN [g EXCEPT !.map = Put(g.map, get_hash(metadata), node_id)]
                ELSE g,
          ret |-> FALSE]
    ELSE LET g1 == IF metadata.kind # "none"
                   THEN update_metadata(g, node_id, metadata) ELSE g
             g2 == IF add_connections # << >>
                   THEN update_add_connections(g1, node_id, add_connections, 1) ELSE g1
             g3 == IF remove_connections # << >>
                   THEN update_remove_connections(g2, node_id, remove_connections, 1)
                   ELSE g2
         IN [g |-> g3, ret |-> TRUE]

\* memory_tools.update
update(g, node_id, metadata, add_connections, remove_connections) ==
    IF ~has_node(g, node_id) THEN [g |-> g, ret |-> FALSE]
    ELSE LET g1 == IF metadata.kind # "none"
                   THEN update_metadata(g, node_id, metadata) ELSE g
             g2 == IF add_connections # << >>
                   THEN update_add_connections(g1, node_id, add_connections, 1) ELSE g1
             g3 == IF remove_connections # << >>
                   THEN update_remove_connections(g2, node_id, remove_connections, 1)
                   ELSE g2
         IN [g |-> g3, ret |-> TRUE]

(***************************************************************************)
(* Retrieval: the lexical index (bm25_setup, bm25_search), the semantic    *)
(* re-ranking (semantic_search) and memory_tools.search.                   *)
(*                                                                         *)
(* A text of the model is one lower-case word, so the tokens that          *)
(* tokenize_pattern finds in it are the word itself.  BM25Okapi (package   *)
(* rank_bm25) scores a document that holds the query word with idf(word)   *)
(* times a positive factor that is the same for documents of one length,   *)
(* and every other document with 0; a score is held here as its sign,      *)
(* which orders the scores as the floats are ordered.  The cosine          *)
(* similarity of the embeddings is an integer rank that is a function of   *)
(* the query and the text.                                                 *)
(***************************************************************************)
\* MemoryNode.get_text_content, " ".join of the values
RECURSIVE JoinValues(_, _)
JoinValues(d, i) ==
    IF i > Len(d) THEN ""
    ELSE (IF i > 1 THEN " " ELSE "") \o d[i][2] \o JoinValues(d, i + 1)

\* MemoryNode.get_text_content
get_text_content(node) ==
    IF HasKey(node.metadata, "content") THEN Lookup(node.metadata, "content")
    ELSE JoinValues(node.metadata, 1)

\* tokenize_pattern.findall(text.lower()) of a text of one lower-case word
tokenize(text) == IF text = "" THEN << >> ELSE <<text>>

\* the lexical index: hasattr(self, 'bm25'), self.corpus, self.id_list
NoIndex == [built |-> FALSE, corpus |-> << >>, id_list |-> << >>]

\* MemoryGraph.bm25_setup
bm25_setup(g) ==
    [built |-> TRUE,
     corpus |-> [i \in 1..Len(g.order) |-> tokenize(get_text_content(g.nodes[g.order[i]]))],
     id_list |-> g.order]

\* BM25Okapi: the number of documents that hold word w, and the words of the corpus
DocFreq(corpus, w) == Cardinality({i \in 1..Len(corpus) : w \in Range(corpus[i])})
CorpusWords(corpus) == UNION {Range(corpus[i]) : i \in 1..Len(corpus)}

\* BM25Okapi._calc_idf: idf_sum is the log of IdfNum / IdfDen, the products over
\* the words of (N - n + 0.5) and of (n + 0.5), both doubled
RECURSIVE IdfNum(_, _)
IdfNum(corpus, W) ==
    IF W = {} THEN 1
    ELSE LET w == CHOOSE x \in W : TRUE
         IN (2 * (Len(corpus) - DocFreq(corpus, w)) + 1) * IdfNum(corpus, W \ {w})

RECURSIVE IdfDen(_, _)
IdfDen(corpus, W) ==
    IF W = {} THEN 1
    ELSE LET w == CHOOSE x \in W : TRUE
         IN (2 * DocFreq(corpus, w) + 1) * IdfDen(corpus, W \ {w})

Sign(x, y) == IF x > y THEN 1 ELSE IF x = y THEN 0 ELSE 0 - 1

\* BM25Okapi._calc_idf and `self.idf.get(q) or 0`: the sign of the idf of a
\* word; a negative idf is replaced by epsilon * average_idf
idf(corpus, w) ==
    IF w \notin CorpusWords(corpus) THEN 0
    ELSE LET n == DocFreq(corpus, w)
             raw == Sign(Len(corpus) - n, n)
         IN IF raw >= 0 THEN raw
            ELSE Sign(IdfNum(corpus, CorpusWords(corpus)),
                      IdfDen(corpus, CorpusWords(corpus)))

\* BM25Okapi.get_scores
RECURSIVE doc_score(_, _, _, _)
doc_score(corpus, doc, tokenized_query, i) ==
    IF i > Len(tokenized_query) THEN 0
    ELSE (IF tokenized_query[i] \in Range(doc) THEN idf(corpus, tokenized_query[i]) ELSE 0)
         + doc_score(corpus, doc, tokenized_query, i + 1)

get_scores(corpus, tokenized_query) ==
    [i \in 1..Len(corpus) |-> doc_score(corpus, corpus[i], tokenized_query, 1)]

\* np.argsort(scores): the indices by ascending score, equal scores by index
argsort(scores) ==
    LET n == Len(scores)
        pos(i) == 1 + Cardinality({j \in 1..n :
                       scores[j] < scores[i] \/ (scores[j] = scores[i] /\ j < i)})
    IN [p \in 1..n |-> CHOOSE i \in 1..n : pos(i) = p]

\* the Python slices s[-k:] and s[:k]
SliceLast(s, k) ==
    LET n == Len(s)
        start == IF k > 0 THEN (IF n - k > 0 THEN n - k ELSE 0)
                 ELSE (IF 0 - k < n THEN 0 - k ELSE n)
    IN SubSeq(s, start + 1, n)

SliceFirst(s, k) ==
    LET n == Len(s)
        stop == IF k >= 0 THEN (IF k < n THEN k ELSE n)
                ELSE (IF n + k > 0 THEN n + k ELSE 0)
    IN SubSeq(s, 1, stop)

\* bm25_search that takes the first top_k indices of the argsort
bm25_search_lowest(g, index, query, top_k) ==
    LET index1 == IF ~index.built \/ Len(index.corpus) # Cardinality(DOMAIN g.nodes)
                  THEN bm25_setup(g) ELSE index
        scores == get_scores(index1.corpus, tokenize(query))
        top_indices == SliceFirst(argsort(scores), top_k)
    IN [index |-> index1,
        ret |-> [i \in 1..Len(top_indices) |-> index1.id_list[top_indices[i]]]]

\* bm25_search that builds the index once and never again
bm25_search_never_rebuilds(g, index, query, top_k) ==
    LET index1 == IF ~index.built THEN bm25_setup(g) ELSE index
        scores == get_scores(index1.corpus, tokenize(query))
        top_indices == SliceLast(argsort(scores), top_k)
    IN [index |-> index1,
        ret |-> [i \in 1..Len(top_indices) |-> index1.id_list[top_indices[i]]]]

\* MemoryGraph.bm25_search
bm25_search(g, index, query, top_k) ==
    LET index1 == IF ~index.built \/ Len(index.corpus) # Cardinality(DOMAIN g.nodes)
                  THEN bm25_setup(g) ELSE index
        scores == get_scores(index1.corpus, tokenize(query))
        top_indices == SliceLast(argsort(scores), top_k)
    IN [index |-> index1,
        ret |-> [i \in 1..Len(top_indices) |-> index1.id_list[top_indices[i]]]]

\* the embedding provider and the cosine of semantic_search: the rank of the
\* similarity of a text to the query; equal texts have equal embeddings
similarity(query, text) == IF text = query THEN 2 ELSE 1

\* sorted(results, key=lambda x: x[1], reverse=True): by descending score, equal
\* scores in the order of the list
sorted_by_score(results) ==
    LET n == Len(results)
        pos(i) == 1 + Cardinality({j \in 1..n :
                       results[j][2] > results[i][2]
                       \/ (results[j][2] = results[i][2] /\ j < i)})
    IN [p \in 1..n |-> results[CHOOSE i \in 1..n : pos(i) = p]]

\* semantic_search that sorts by ascending score
semantic_search_ascending(g, query, candidate_ids, top_k, provider_fails) ==
    IF candidate_ids = << >> THEN [ok |-> TRUE, ret |-> << >>]
    ELSE IF provider_fails \/ ~(Range(candidate_ids) \subseteq DOMAIN g.nodes)
    THEN [ok |-> FALSE, ret |-> << >>]
    ELSE LET results == [i \in 1..Len(candidate_ids) |->
                            <<candidate_ids[i],
                              0 - similarity(query, get_text_content(g.nodes[candidate_ids[i]]))>>]
             ranked == SliceFirst(sorted_by_score(results), top_k)
         IN [ok |-> TRUE, ret |-> [i \in 1..Len(ranked) |-> <<ranked[i][1], 0 - ranked[i][2]>>]]

\* semantic_search that returns an empty list when the provider fails
semantic_search_swallows(g, query, candidate_ids, top_k, provider_fails) ==
    IF candidate_ids = << >> THEN [ok |-> TRUE, ret |-> << >>]
    ELSE IF provider_fails THEN [ok |-> TRUE, ret |-> << >>]
    ELSE IF ~(Range(candidate_ids) \subseteq DOMAIN g.nodes)
    THEN [ok |-> FALSE, ret |-> << >>]
    ELSE LET results == [i \in 1..Len(candidate_ids) |->
                            <<candidate_ids[i],
                              similarity(query, get_text_content(g.nodes[candidate_ids[i]]))>>]
         IN [ok |-> TRUE, ret |-> SliceFirst(sorted_by_score(results), top_k)]

\* MemoryGraph.semantic_search; model.encode raising (provider_fails) and the
\* KeyError of self.nodes[node_id] end the call with an exception (ok is FALSE)
semantic_search(g, query, candidate_ids, top_k, provider_fails) ==
    IF candidate_ids = << >> THEN [ok |-> TRUE, ret |-> << >>]
    ELSE IF provider_fails THEN [ok |-> FALSE, ret |-> << >>]
    ELSE IF ~(Range(candidate_ids) \subseteq DOMAIN g.nodes)
    THEN [ok |-> FALSE, ret |-> << >>]
    ELSE LET results == [i \in 1..Len(candidate_ids) |->
                            <<candidate_ids[i],
                              similarity(query, get_text_content(g.nodes[candidate_ids[i]]))>>]
         IN [ok |-> TRUE, ret |-> SliceFirst(sorted_by_score(results), top_k)]

\* search, "Step 4: Prepare results" with the edge set left out of the record
search_records_no_edges(g, semantic_results, iter) ==
    LET kept == SelectSeq(semantic_results, LAMBDA r : has_node(g, r[1]))
    IN [i \in 1..Len(kept) |->
           [id |-> kept[i][1],
            metadata |-> g.nodes[kept[i][1]].metadata,
            score |-> kept[i][2],
            connections |-> << >>]]

\* search, "Step 4: Prepare results"; list(node.edges) lists a set
search_records(g, semantic_results, iter) ==
    LET kept == SelectSeq(semantic_results, LAMBDA r : has_node(g, r[1]))
    IN [i \in 1..Len(kept) |->
           [id |-> kept[i][1],
            metadata |-> g.nodes[kept[i][1]].metadata,
            score |-> kept[i][2],
            connections |-> InIterOrder(g.nodes[kept[i][1]].edges, iter)]]

\* search that asks semantic_search for one result fewer than top_k
search_one_short(g, index, query, top_k, bfs_depth, bm25_candidates, iter, provider_fails) ==
    IF DOMAIN g.nodes = {} THEN [g |-> g, index |-> index, ok |-> TRUE, results |-> << >>]
    ELSE LET initial_candidates == bm25_search(g, index, query, bm25_candidates)
             candidate_set == bfs_exploration(g, initial_candidates.ret, bfs_depth, iter)
             semantic_results == semantic_search(g, query, InIterOrder(candidate_set, iter),
                                                 top_k - 1, provider_fails)
         IN [g |-> g,
             index |-> initial_candidates.index,
             ok |-> semantic_results.ok,
             results |-> IF semantic_results.ok
                         THEN search_records(g, semantic_results.ret, iter)
                         ELSE << >>]

\* search that ranks the lexical seeds a second time, after the candidate set
search_seeds_twice(g, index, query, top_k, bfs_depth, bm25_candidates, iter, provider_fails) ==
    IF DOMAIN g.nodes = {} THEN [g |-> g, index |-> index, ok |-> TRUE, results |-> << >>]
    ELSE LET initial_candidates == bm25_search(g, index, query, bm25_candidates)
             candidate_set == bfs_exploration(g, initial_candidates.ret, bfs_depth, iter)
             semantic_results == semantic_search(g, query,
                                                 InIterOrder(candidate_set, iter)
                                                     \o initial_candidates.ret,
                                                 top_k, provider_fails)
         IN [g |-> g,
             index |-> initial_candidates.index,
             ok |-> semantic_results.ok,
             results |-> IF semantic_results.ok
                         THEN search_records(g, semantic_results.ret, iter)
                         ELSE << >>]

\* search that stores the query as a node of the graph
search_stores_query(g, index, query, top_k, bfs_depth, bm25_candidates, iter, provider_fails) ==
    IF DOMAIN g.nodes = {} THEN [g |-> g, index |-> index, ok |-> TRUE, results |-> << >>]
    ELSE LET initial_candidates == bm25_search(g, index, query, bm25_candidates)
             candidate_set == bfs_exploration(g, initial_candidates.ret, bfs_depth, iter)
             semantic_results == semantic_search(g, query, InIterOrder(candidate_set, iter),
                                                 top_k, provider_fails)
         IN [g |-> add_node(g, StrMeta(query)).g,
             index |-> initial_candidates.index,
             ok |-> semantic_results.ok,
             results |-> IF semantic_results.ok
                         THEN search_records(g, semantic_results.ret, iter)
                         ELSE << >>]

\* memory_tools.search; iter is the order in which the sets of this run are
\* iterated (current_node.edges, list(candidate_set), list(node.edges)); g is
\* the graph the call leaves
search(g, index, query, top_k, bfs_depth, bm25_candidates, iter, provider_fails) ==
    IF DOMAIN g.nodes = {} THEN [g |-> g, index |-> index, ok |-> TRUE, results |-> << >>]
    ELSE LET initial_candidates == bm25_search(g, index, query, bm25_candidates)
             candidate_set == bfs_exploration(g, initial_candidates.ret, bfs_depth, iter)
             semantic_results == semantic_search(g, query, InIterOrder(candidate_set, iter),
                                                 top_k, provider_fails)
         IN [g |-> g,
             index |-> initial_candidates.index,
             ok |-> semantic_results.ok,
             results |-> IF semantic_results.ok
                         THEN search_records(g, semantic_results.ret, iter)
                         ELSE << >>]

(***************************************************************************)
(* The calls of Spec: write, update and add_edge on the global graph, from *)
(* the empty graph the module creates when it is imported.                 *)
(***************************************************************************)
\* None where a file path or a counter key is expected
NoFile == ""

\* no MemoryToolEnv has been constructed
NoEnv ==
    [conversation_mode |-> FALSE, current_episode |-> NoFile,
     N |-> 0, M |-> 0, P |-> 0, U |-> 0, files |-> << >>, counter |-> << >>,
     tool |-> "none", key |-> "", result |-> "none", engine_called |-> FALSE,
     pre_counter |-> << >>]

NoCall ==
    [op |-> "none", ret_id |-> EmptyId, ret_ok |-> FALSE,
     start_nodes |-> << >>, max_depth |-> 0, discovered |-> {},
     query |-> "", top_k |-> 0, bfs_depth |-> 0, bm25_candidates |-> 0,
     iter |-> << >>, provider_fails |-> FALSE, failed |-> FALSE, results |-> << >>]

\* the arguments a caller can pass when the graph is g
IdArgs(g) == DOMAIN g.nodes \cup {NoSuchId}
ConnArgs(g) == SeqsUpTo(IdArgs(g) \cup {EmptyId}, MaxConnLen)
AddArgs(g) == SeqsUpTo(IdArgs(g) \cup {EmptyId}, MaxUpdateLen)
RemoveArgs(g) == SeqsUpTo(IdArgs(g), MaxUpdateLen)
MetaOrNone == MetaArgs \cup {NoneMeta}

\* the model holds at most MaxNodes nodes: a write that would create one more is left out
CanWrite(g, metadata) == get_hash(metadata) \in DOMAIN g.map \/ Len(g.order) < MaxNodes

Become(g) ==
    /\ nodes' = g.nodes
    /\ order' = g.order
    /\ content_hash_to_id_map' = g.map
    /\ bm25' = bm25
    /\ pre' = Graph
    /\ pre_bm25' = bm25

Init ==
    /\ nodes = << >>
    /\ order = << >>
    /\ content_hash_to_id_map = << >>
    /\ bm25 = NoIndex
    /\ pre = EmptyGraph
    /\ pre_bm25 = NoIndex
    /\ last = NoCall
    /\ env = NoEnv

Write(metadata, connections) ==
    /\ CanWrite(Graph, metadata)
    /\ \E r \in {write(Graph, metadata, connections)} :
          /\ Become(r.g)
          /\ last' = [NoCall EXCEPT !.op = "write", !.ret_id = r.ret]
    /\ UNCHANGED env

Update(node_id, metadata, add_connections, remove_connections) ==
    /\ \E r \in {update(Graph, node_id, metadata, add_connections, remove_connections)} :
          /\ Become(r.g)
          /\ last' = [NoCall EXCEPT !.op = "update", !.ret_ok = r.ret]
    /\ UNCHANGED env

AddEdge(source_id, target_id) ==
    /\ \E r \in {add_edge(Graph, source_id, target_id)} :
          /\ Become(r.g)
          /\ last' = [NoCall EXCEPT !.op = "add_edge", !.ret_ok = r.ret]
    /\ UNCHANGED env

Next ==
    \/ \E metadata \in MetaArgs, connections \in ConnArgs(Graph) :
          Write(metadata, connections)
    \/ \E node_id \in IdArgs(Graph), metadata \in MetaOrNone,
          add_connections \in AddArgs(Graph), remove_connections \in RemoveArgs(Graph) :
          Update(node_id, metadata, add_connections, remove_connections)
    \/ \E source_id \in IdArgs(Graph) \cup {EmptyId}, target_id \in IdArgs(Graph) \cup {EmptyId} :
          AddEdge(source_id, target_id)

Spec == Init /\ [][Next]_vars

\* the last call was write(metadata, connections): it started in pre, left the
\* graph as it is now and returned last.ret_id
DidWrite(metadata, connections) ==
    /\ last.op = "write"
    /\ CanWrite(pre, metadata)
    /\ write(pre, metadata, connections) = [g |-> Graph, ret |-> last.ret_id]

\* the last call was update(node_id, metadata, add_connections, remove_connections)
DidUpdate(node_id, metadata, add_connections, remove_connections) ==
    /\ last.op = "update"
    /\ update(pre, node_id, metadata, add_connections, remove_connections)
          = [g |-> Graph, ret |-> last.ret_ok]

\* the last call was add_edge(source_id, target_id)
DidAddEdge(source_id, target_id) ==
    /\ last.op = "add_edge"
    /\ add_edge(pre, source_id, target_id) = [g |-> Graph, ret |-> last.ret_ok]

(***************************************************************************)
(* SpecBfs: bfs_exploration as a function of its inputs.  Init draws a     *)
(* graph of MaxBfsNodes nodes with any edges between them (self-loops and  *)
(* cycles included), a start_nodes list and a max_depth; BfsReturn is the  *)
(* call returning.                                                         *)
(***************************************************************************)
BfsNodeIds == 1..MaxBfsNodes
NodeText == <<"a", "b", "c", "d", "e">>

BfsGraph(E) ==
    [nodes |-> [i \in BfsNodeIds |->
                   [id |-> i, metadata |-> << <<"content", NodeText[i]>> >>, edges |-> E[i]]],
     order |-> [i \in BfsNodeIds |-> i],
     map |-> [s \in {NodeText[i] : i \in BfsNodeIds} |->
                 CHOOSE i \in BfsNodeIds : NodeText[i] = s]]

InitBfs ==
    \E E \in [BfsNodeIds -> SUBSET BfsNodeIds],
       start_nodes \in SeqsUpTo(BfsNodeIds \cup {NoSuchId}, MaxSeeds),
       max_depth \in 0..MaxDepth :
       /\ nodes = BfsGraph(E).nodes
       /\ order = BfsGraph(E).order
       /\ content_hash_to_id_map = BfsGraph(E).map
       /\ bm25 = NoIndex
       /\ pre = BfsGraph(E)
       /\ pre_bm25 = NoIndex
       /\ last = [NoCall EXCEPT !.op = "bfs_call", !.start_nodes = start_nodes,
                                !.max_depth = max_depth]
       /\ env = NoEnv

BfsReturn ==
    /\ last.op = "bfs_call"
    /\ \E iter \in IterOrders :
          last' = [last EXCEPT !.op = "bfs",
                     !.discovered = bfs_exploration(Graph, last.start_nodes,
                                                     last.max_depth, iter)]
    /\ UNCHANGED <<nodes, order, content_hash_to_id_map, bm25, pre, pre_bm25, env>>

NextBfs == BfsReturn

SpecBfs == InitBfs /\ [][NextBfs]_vars

(***************************************************************************)
(* SpecSearch: search as a function of the graph, of the lexical index it  *)
(* finds and of its arguments.  Init draws a graph as writes of fresh keys *)
(* leave it (a node has edges to nodes written before it), the lexical     *)
(* index as absent or as a search has built it on that graph, and then at  *)
(* most one update of a node's metadata, which leaves the lexical index as *)
(* it was; it draws the arguments of the call, the order in which the run  *)
(* iterates its sets, and whether the embedding provider fails.            *)
(* SearchReturn is the call returning or raising.                          *)
(***************************************************************************)
MaxSearchNodes == 3     \* nodes of the graphs search is applied to
MaxSearchConn == 1      \* edges a node of these graphs has
MaxTopK == 2            \* largest top_k passed to search
MaxCandidates == 2      \* largest bm25_candidates passed to search
MaxSearchDepth == 1     \* largest bfs_depth passed to search

SearchTexts == {"a", "b"}
Queries == {"a", "b"}
TopKArgs == (0 - 1)..MaxTopK
CandidateArgs == (0 - 1)..MaxCandidates
DepthArgs == 0..MaxSearchDepth

\* the metadata the nodes are written with, and the metadata update is passed
SearchWriteArgs == {StrMeta(t) : t \in SearchTexts} \cup {DictMeta(<< <<"cid", "a">> >>)}
SearchMetaArgs == {StrMeta(t) : t \in SearchTexts}

SearchEdges(n) ==
    {E \in [1..n -> SUBSET (1..n)] :
        \A i \in 1..n : E[i] \subseteq 1..(i - 1) /\ Cardinality(E[i]) <= MaxSearchConn}

\* the graph after write(metadata[i], connections = E[i]) for i = 1, .., n
SearchGraph(n, metadata, E) ==
    [nodes |-> [i \in 1..n |->
                   [id |-> i, metadata |-> NormalizeMetadata(metadata[i]), edges |-> E[i]]],
     order |-> [i \in 1..n |-> i],
     map |-> [s \in {get_hash(metadata[i]) : i \in 1..n} |->
                 CHOOSE i \in 1..n : get_hash(metadata[i]) = s]]

\* the graph g when only its first k nodes had been written
SearchPrefix(g, k) ==
    [nodes |-> [i \in 1..k |-> g.nodes[i]],
     order |-> SubSeq(g.order, 1, k),
     map |-> [s \in {h \in DOMAIN g.map : g.map[h] <= k} |-> g.map[s]]]

\* the lexical index of a graph: none before the first search of a graph that
\* has nodes, bm25_setup(g) after a search, and the bm25_setup of a search made
\* before the last node was written
SearchIndexes(g) ==
    LET n == Len(g.order) IN
    {NoIndex} \cup {bm25_setup(SearchPrefix(g, k)) : k \in {j \in {n - 1, n} : j >= 1}}

\* the graph g, or g after one update of the metadata of a node
SearchUpdated(g) ==
    {g} \cup {update(g, node_id, metadata, << >>, << >>).g :
                 node_id \in DOMAIN g.nodes, metadata \in SearchMetaArgs}

InitSearch ==
    \E n \in 0..MaxSearchNodes :
       \E metadata \in [1..n -> SearchWriteArgs], E \in SearchEdges(n) :
          /\ \A i, j \in 1..n : get_hash(metadata[i]) = get_hash(metadata[j]) => i = j
          /\ \E index \in SearchIndexes(SearchGraph(n, metadata, E)),
                g \in SearchUpdated(SearchGraph(n, metadata, E)) :
                /\ nodes = g.nodes
                /\ order = g.order
                /\ content_hash_to_id_map = g.map
                /\ bm25 = index
                /\ pre = g
                /\ pre_bm25 = index
          /\ \E query \in Queries, top_k \in TopKArgs, bfs_depth \in DepthArgs,
                bm25_candidates \in CandidateArgs, iter \in IterOrders,
                provider_fails \in BOOLEAN :
                last = [NoCall EXCEPT !.op = "search_call", !.query = query,
                          !.top_k = top_k, !.bfs_depth = bfs_depth,
                          !.bm25_candidates = bm25_candidates, !.iter = iter,
                          !.provider_fails = provider_fails]
          /\ env = NoEnv

SearchReturn ==
    /\ last.op = "search_call"
    /\ \E r \in {search(Graph, bm25, last.query, last.top_k, last.bfs_depth,
                         last.bm25_candidates, last.iter, last.provider_fails)} :
          /\ nodes' = r.g.nodes
          /\ order' = r.g.order
          /\ content_hash_to_id_map' = r.g.map
          /\ bm25' = r.index
          /\ last' = [last EXCEPT !.op = "search", !.failed = ~r.ok, !.results = r.results]
    /\ UNCHANGED <<pre, pre_bm25, env>>

NextSearch == SearchReturn

SpecSearch == InitSearch /\ [][NextSearch]_vars

\* the call of SpecSearch: the lexical seeds it took (initial_candidates) and
\* the candidates it ranked (candidate_set)
SearchSeeds == bm25_search(pre, pre_bm25, last.query, last.bm25_candidates).ret
SearchCandidates == bfs_exploration(pre, SearchSeeds, last.bfs_depth, last.iter)

\* bfs_exploration, the order in which ids enter `discovered`: the start nodes
\* in the order of the list, then the neighbours as the loop finds them
RECURSIVE bfs_discovery_loop(_, _, _, _, _)
bfs_discovery_loop(g, queue, discovery, max_depth, iter) ==
    IF queue = << >> THEN discovery
    ELSE LET current_id == Head(queue)[1]
             depth == Head(queue)[2]
         IN IF depth >= max_depth \/ ~has_node(g, current_id)
            THEN bfs_discovery_loop(g, Tail(queue), discovery, max_depth, iter)
            ELSE LET found == InIterOrder(g.nodes[current_id].edges \ Range(discovery), iter)
                 IN bfs_discovery_loop(g,
                        Tail(queue) \o [i \in 1..Len(found) |-> <<found[i], depth + 1>>],
                        discovery \o found, max_depth, iter)

RECURSIVE Distinct(_, _)
Distinct(s, i) ==
    IF i > Len(s) THEN << >>
    ELSE (IF \E j \in 1..(i - 1) : s[j] = s[i] THEN << >> ELSE <<s[i]>>) \o Distinct(s, i + 1)

bfs_discovery_order(g, start_nodes, max_depth, iter) ==
    bfs_discovery_loop(g, [i \in 1..Len(start_nodes) |-> <<start_nodes[i], 0>>],
                       Distinct(start_nodes, 1), max_depth, iter)

PositionIn(s, x) == CHOOSE i \in 1..Len(s) : s[i] = x

\* the loop that queues a neighbour whether or not it is in `discovered`
RECURSIVE bfs_queue_loop_requeues(_, _, _, _, _, _, _)
bfs_queue_loop_requeues(g, queue, discovered, enqueued, pops, max_depth, iter) ==
    IF queue = << >> THEN [discovered |-> discovered, enqueued |-> enqueued, pops |-> pops]
    ELSE LET current_id == Head(queue)[1]
             depth == Head(queue)[2]
         IN IF depth >= max_depth \/ ~has_node(g, current_id)
            THEN bfs_queue_loop_requeues(g, Tail(queue), discovered, enqueued, pops + 1,
                                         max_depth, iter)
            ELSE LET found == InIterOrder(g.nodes[current_id].edges, iter)
                 IN bfs_queue_loop_requeues(
                        g, Tail(queue) \o [i \in 1..Len(found) |-> <<found[i], depth + 1>>],
                        discovered \cup Range(found), enqueued \o found, pops + 1,
                        max_depth, iter)

\* bfs_exploration, the `while queue` loop with its bookkeeping: the ids in the
\* order in which they are put on the queue (start nodes included) and the
\* number of iterations of the loop (queue.pop(0))
RECURSIVE bfs_queue_loop(_, _, _, _, _, _, _)
bfs_queue_loop(g, queue, discovered, enqueued, pops, max_depth, iter) ==
    IF queue = << >> THEN [discovered |-> discovered, enqueued |-> enqueued, pops |-> pops]
    ELSE LET current_id == Head(queue)[1]
             depth == Head(queue)[2]
         IN IF depth >= max_depth \/ ~has_node(g, current_id)
            THEN bfs_queue_loop(g, Tail(queue), discovered, enqueued, pops + 1,
                                max_depth, iter)
            ELSE LET found == InIterOrder(g.nodes[current_id].edges \ discovered, iter)
                 IN bfs_queue_loop(
                        g, Tail(queue) \o [i \in 1..Len(found) |-> <<found[i], depth + 1>>],
                        discovered \cup Range(found), enqueued \o found, pops + 1,
                        max_depth, iter)

\* the bookkeeping of bfs_exploration(start_nodes, max_depth)
bfs_queue_trace(g, start_nodes, max_depth, iter) ==
    bfs_queue_loop(g, [i \in 1..Len(start_nodes) |-> <<start_nodes[i], 0>>],
                   Range(start_nodes), start_nodes, 0, max_depth, iter)

\* how many times id is in the sequence s
Occurrences(s, id) == Cardinality({i \in 1..Len(s) : s[i] = id})

(***************************************************************************)
(* SpecEnv: MemoryToolEnv (src/envs/memory_tool_env.py), the tool wrappers *)
(* in front of the global graph.  Init constructs an environment in file   *)
(* mode or in conversation mode with limits N, M, P, U drawn from          *)
(* 0..MaxQuota, over the empty graph; each action is one tool call.        *)
(* current_episode is an attribute the class reads and never assigns: it   *)
(* is drawn as not set, or as set while the episode of one of the files    *)
(* runs; the class tests only whether it is set.                           *)
(***************************************************************************)
MaxQuota == 1       \* largest limit N, M, P, U of the environment
MB == 2             \* max_bytes limit of read

\* the file_path column of the dataset, in the order of its entries
Files == <<"f1", "f2">>

\* self.current_episode: not set (or falsy), or set for the episode of a file
EpisodeArgs == {NoFile} \cup Range(Files)

\* MemoryToolEnv.__init__ and _setup_dataset
setup_dataset(conversation_mode, current_episode, N, M, P, U) ==
    [NoEnv EXCEPT
        !.conversation_mode = conversation_mode,
        !.current_episode = current_episode,
        !.N = N, !.M = M, !.P = P, !.U = U,
        !.files = IF conversation_mode THEN << >> ELSE Files,
        !.counter = IF conversation_mode
                    THEN [k \in {"conversation"} |->
                            [memory_write |-> 0, memory_search |-> 0, memory_update |-> 0]]
                    ELSE [k \in Range(Files) |->
                            [read |-> 0, memory_write |-> 0, memory_search |-> 0,
                             memory_update |-> 0]],
        !.pre_counter = IF conversation_mode
                        THEN [k \in {"conversation"} |->
                                [memory_write |-> 0, memory_search |-> 0, memory_update |-> 0]]
                        ELSE [k \in Range(Files) |->
                                [read |-> 0, memory_write |-> 0, memory_search |-> 0,
                                 memory_update |-> 0]]]

\* MemoryToolEnv._get_current_file
get_current_file(e) ==
    IF e.conversation_mode THEN "conversation"
    ELSE IF e.current_episode # NoFile
              /\ \E i \in 1..Len(e.files) : e.files[i] \in DOMAIN e.counter
         THEN e.files[CHOOSE i \in 1..Len(e.files) :
                         /\ e.files[i] \in DOMAIN e.counter
                         /\ \A j \in 1..(i - 1) : e.files[j] \notin DOMAIN e.counter]
         ELSE NoFile

\* the quota test with > for >=
quota_exceeded_off_by_one(count, limit) == count > limit

\* `self.counter[key][tool] >= limit`
quota_exceeded(count, limit) == count >= limit

\* what a tool call leaves in env: the tool, the counter key it used, the kind
\* of string it returned and whether it reached the memory engine
Called(tool, key, counter, result, engine_called) ==
    [env EXCEPT !.tool = tool, !.key = key, !.counter = counter, !.result = result,
                !.engine_called = engine_called, !.pre_counter = env.counter]

Count(counter, key, tool) ==
    [counter EXCEPT ![key] = [@ EXCEPT ![tool] = @ + 1]]

InitEnv ==
    /\ nodes = << >>
    /\ order = << >>
    /\ content_hash_to_id_map = << >>
    /\ bm25 = NoIndex
    /\ pre = EmptyGraph
    /\ pre_bm25 = NoIndex
    /\ last = NoCall
    /\ \E conversation_mode \in BOOLEAN, current_episode \in EpisodeArgs,
          N \in 0..MaxQuota, M \in 0..MaxQuota, P \in 0..MaxQuota, U \in 0..MaxQuota :
          env = setup_dataset(conversation_mode, current_episode, N, M, P, U)

\* custom_read
Read(file_path, position, max_bytes) ==
    /\ UNCHANGED <<nodes, order, content_hash_to_id_map, bm25>>
    /\ pre' = Graph
    /\ pre_bm25' = bm25
    /\ last' = NoCall
    /\ IF file_path \notin Range(env.files)
       THEN env' = Called("read", NoFile, env.counter, "invalid_file_path", FALSE)
       ELSE IF quota_exceeded(env.counter[file_path]["read"], env.N)
       THEN env' = Called("read", file_path, env.counter, "exceeded", FALSE)
       ELSE env' = Called("read", file_path, Count(env.counter, file_path, "read"),
                          IF max_bytes > MB THEN "max_bytes_exceeds_limit"
                          ELSE IF max_bytes < 0 THEN "max_bytes_negative"
                          ELSE IF position < 0 THEN "position_negative"
                          ELSE "content",
                          FALSE)

\* a memory tool call that returns before it reaches the engine
Refused(tool, key, result) ==
    /\ UNCHANGED <<nodes, order, content_hash_to_id_map, bm25>>
    /\ pre' = Graph
    /\ pre_bm25' = bm25
    /\ last' = NoCall
    /\ env' = Called(tool, key, env.counter, result, FALSE)

\* custom_memory_write
MemoryWrite(metadata, connections) ==
    LET current_file == get_current_file(env) IN
    IF current_file = NoFile
    THEN Refused("memory_write", NoFile, "no_active_file")
    ELSE IF quota_exceeded(env.counter[current_file]["memory_write"], env.M)
    THEN Refused("memory_write", current_file, "exceeded")
    ELSE /\ CanWrite(Graph, metadata)
         /\ \E r \in {write(Graph, metadata, connections)} :
               /\ Become(r.g)
               /\ last' = [NoCall EXCEPT !.op = "write", !.ret_id = r.ret]
         /\ env' = Called("memory_write", current_file,
                          Count(env.counter, current_file, "memory_write"),
                          "success", TRUE)

\* custom_memory_search
MemorySearch(query, top_k, bfs_depth, bm25_candidates, iter, provider_fails) ==
    LET current_file == get_current_file(env) IN
    IF current_file = NoFile
    THEN Refused("memory_search", NoFile, "no_active_file")
    ELSE IF quota_exceeded(env.counter[current_file]["memory_search"], env.P)
    THEN Refused("memory_search", current_file, "exceeded")
    ELSE \E r \in {search(Graph, bm25, query, top_k, bfs_depth, bm25_candidates,
                           iter, provider_fails)} :
            /\ nodes' = r.g.nodes
            /\ order' = r.g.order
            /\ content_hash_to_id_map' = r.g.map
            /\ bm25' = r.index
            /\ pre' = Graph
            /\ pre_bm25' = bm25
            /\ last' = [NoCall EXCEPT !.op = "search", !.query = query, !.top_k = top_k,
                          !.bfs_depth = bfs_depth, !.bm25_candidates = bm25_candidates,
                          !.iter = iter, !.provider_fails = provider_fails,
                          !.failed = ~r.ok, !.results = r.results]
            /\ env' = Called("memory_search", current_file,
                             Count(env.counter, current_file, "memory_search"),
                             IF r.ok THEN "results" ELSE "failed_to_search", TRUE)

\* custom_memory_update
MemoryUpdate(node_id, metadata, add_connections, remove_connections) ==
    LET current_file == get_current_file(env) IN
    IF current_file = NoFile
    THEN Refused("memory_update", NoFile, "no_active_file")
    ELSE IF quota_exceeded(env.counter[current_file]["memory_update"], env.U)
    THEN Refused("memory_update", current_file, "exceeded")
    ELSE \E r \in {update(Graph, node_id, metadata, add_connections, remove_connections)} :
            /\ Become(r.g)
            /\ last' = [NoCall EXCEPT !.op = "update", !.ret_ok = r.ret]
            /\ env' = Called("memory_update", current_file,
                             Count(env.counter, current_file, "memory_update"),
                             IF r.ret THEN "success" ELSE "not_found", TRUE)

\* the arguments the tools are called with
FileArgs == Range(Files) \cup {"f0"}
PositionArgs == {0 - 1, 0}
MaxBytesArgs == {0 - 1, 1, MB + 1}
EnvTopKArgs == 1..MaxTopK

NextEnv ==
    \/ \E file_path \in FileArgs, position \in PositionArgs, max_bytes \in MaxBytesArgs :
          Read(file_path, position, max_bytes)
    \/ \E metadata \in MetaArgs, connections \in ConnArgs(Graph) :
          MemoryWrite(metadata, connections)
    \/ \E query \in Queries, top_k \in EnvTopKArgs, iter \in IterOrders,
          provider_fails \in BOOLEAN :
          MemorySearch(query, top_k, 1, 1, iter, provider_fails)
    \/ \E node_id \in IdArgs(Graph), metadata \in MetaOrNone,
          add_connections \in AddArgs(Graph), remove_connections \in RemoveArgs(Graph) :
          MemoryUpdate(node_id, metadata, add_connections, remove_connections)

SpecEnv == InitEnv /\ [][NextEnv]_vars

\* the limit of a tool
Limit(e, tool) ==
    IF tool = "read" THEN e.N
    ELSE IF tool = "memory_write" THEN e.M
    ELSE IF tool = "memory_search" THEN e.P
    ELSE e.U

(***************************************************************************)
(* SpecMem: the string-memory environment (src/envs/memory_env.py), which  *)
(* keeps one memory string per file and does not use the graph.  A string  *)
(* is a sequence of characters; args_str is taken after its split into     *)
(* key=value pairs.  The variable env holds the state of this environment. *)
(***************************************************************************)
MaxMemQuota == 2    \* largest limit M of memory_write; N and P are MaxQuota
MaxMM == 2          \* largest MM, the memory size limit
MaxMemoirLen == 2   \* longest memoir written
MaxArgs == 2        \* most key=value pairs in a call

\* the context column of the dataset
FileContext == <<"p", "q", "r">>

\* MemoryToolEnv.__init__ of memory_env
mem_init(N, M, P, MM) ==
    [N |-> N, M |-> M, P |-> P, MM |-> MM,
     files |-> [fp \in Range(Files) |-> FileContext],
     memories |-> [fp \in Range(Files) |-> << >>],
     counter |-> [fp \in Range(Files) |-> [read |-> 0, memwrite |-> 0, memread |-> 0]],
     tool |-> "none", key |-> NoFile, memoir |-> << >>, result |-> "none", output |-> << >>,
     pre_memories |-> [fp \in Range(Files) |-> << >>]]

\* parse_args: the dict of the key=value pairs, a later pair replacing an earlier
\* one of the same key; and args.get(key, default)
RECURSIVE parse_args(_)
parse_args(pairs) ==
    IF pairs = << >> THEN << >>
    ELSE LET k == pairs[Len(pairs)][1]
             rest == parse_args(SubSeq(pairs, 1, Len(pairs) - 1))
         IN SelectSeq(rest, LAMBDA kv : kv[1] # k) \o <<pairs[Len(pairs)]>>

ArgsGet(args, key, default) == IF HasKey(args, key) THEN Lookup(args, key) ELSE default

\* the Python slice s[start:stop] for start, stop >= 0
SliceFromTo(str, start, stop) ==
    SubSeq(str, start + 1, IF stop < Len(str) THEN stop ELSE Len(str))

\* handle_read
handle_read(e, args) ==
    LET fp == ArgsGet(args, "file_path", NoFile)
        pos == ArgsGet(args, "position", 0)
        mb == ArgsGet(args, "max_bytes", MB)
    IN IF mb > MB THEN [result |-> "max_bytes_exceeds_limit", output |-> << >>]
       ELSE IF mb < 0 THEN [result |-> "max_bytes_negative", output |-> << >>]
       ELSE IF pos < 0 THEN [result |-> "position_negative", output |-> << >>]
       ELSE [result |-> "content", output |-> SliceFromTo(e.files[fp], pos, pos + mb)]

\* handle_memory_write
handle_memory_write(e, args) ==
    LET memoir == ArgsGet(args, "memoir", << >>)
        file_path == ArgsGet(args, "file_path", NoFile)
        joined == e.memories[file_path] \o memoir
    IN [e EXCEPT !.memories[file_path] =
                    IF Len(joined) > e.MM THEN SliceLast(joined, e.MM) ELSE joined]

\* handle_memory_read
handle_memory_read(e, args) == e.memories[ArgsGet(args, "file_path", NoFile)]

\* what handle_tool leaves in env: the tool, the file, the memoir it wrote, the
\* kind of string it returned and, for a read, the string
MemCalled(e, tool_name, key, memoir, result, output) ==
    [e EXCEPT !.tool = tool_name, !.key = key, !.memoir = memoir, !.result = result,
              !.output = output, !.pre_memories = env.memories]

\* handle_tool
handle_tool(tool_name, pairs) ==
    LET args == parse_args(pairs)
        file_path == ArgsGet(args, "file_path", NoFile)
        counted(c) == [env EXCEPT !.counter[file_path][c] = @ + 1]
    IN IF file_path \notin DOMAIN env.files
       THEN MemCalled(env, tool_name, NoFile, << >>, "invalid_file_path", << >>)
       ELSE IF tool_name = "read"
       THEN IF env.counter[file_path]["read"] >= env.N
            THEN MemCalled(env, tool_name, file_path, << >>, "exceeded", << >>)
            ELSE MemCalled(counted("read"), tool_name, file_path, << >>,
                           handle_read(env, args).result, handle_read(env, args).output)
       ELSE IF tool_name = "memory_write"
       THEN IF env.counter[file_path]["memwrite"] >= env.M
            THEN MemCalled(env, tool_name, file_path, << >>, "exceeded", << >>)
            ELSE MemCalled(handle_memory_write(counted("memwrite"), args), tool_name,
                           file_path, ArgsGet(args, "memoir", << >>), "wrote", << >>)
       ELSE IF tool_name = "memory_read"
       THEN IF env.counter[file_path]["memread"] >= env.P
            THEN MemCalled(env, tool_name, file_path, << >>, "exceeded", << >>)
            ELSE MemCalled(counted("memread"), tool_name, file_path, << >>, "memory",
                           handle_memory_read(env, args))
       ELSE MemCalled(env, tool_name, file_path, << >>, "unknown_tool", << >>)

InitMem ==
    /\ nodes = << >>
    /\ order = << >>
    /\ content_hash_to_id_map = << >>
    /\ bm25 = NoIndex
    /\ pre = EmptyGraph
    /\ pre_bm25 = NoIndex
    /\ last = NoCall
    /\ \E M \in 0..MaxMemQuota, MM \in 0..MaxMM :
          env = mem_init(MaxQuota, M, MaxQuota, MM)

HandleTool(tool_name, pairs) ==
    /\ env' = handle_tool(tool_name, pairs)
    /\ UNCHANGED <<nodes, order, content_hash_to_id_map, bm25, pre, pre_bm25, last>>

\* the tool names and the key=value pairs of a call
ToolNames == {"read", "memory_write", "memory_read", "memory_search"}
MemoirText == <<"x", "y", "z", "w">>
Memoirs == {SubSeq(MemoirText, 1, n) : n \in 1..(IF MaxMemoirLen < 4 THEN MaxMemoirLen ELSE 4)}
ArgPairs ==
    {<<"file_path", fp>> : fp \in FileArgs}
        \cup {<<"memoir", m>> : m \in Memoirs}
        \cup {<<"max_bytes", MB + 1>>}

NextMem == \E tool_name \in ToolNames, pairs \in SeqsUpTo(ArgPairs, MaxArgs) :
              HandleTool(tool_name, pairs)

SpecMem == InitMem /\ [][NextMem]_vars

\* the last k characters of a string, all of it when it has fewer
LastChars(str, k) == SubSeq(str, (IF Len(str) > k THEN Len(str) - k ELSE 0) + 1, Len(str))

(***************************************************************************)
(* Properties.  A property of a call is stated of the call that has just   *)
(* returned: pre is the graph it started in, the variables are the graph   *)
(* it left, and DidWrite / DidUpdate / DidAddEdge say which arguments it   *)
(* had.                                                                    *)
(***************************************************************************)

\* C1: idempotent write.  After write(m) has returned id, a second write of any
\* metadata with the same canonical key returns id again and creates no node;
\* when the first write started in the empty graph, one node exists afterwards.
C1_IdempotentWrite ==
    last.op = "write" =>
        \A m \in MetaArgs, c \in ConnArgs(pre) :
            DidWrite(m, c) =>
                \A m2 \in MetaArgs, c2 \in ConnArgs(Graph) :
                    get_hash(m2) = get_hash(m) =>
                        LET again == write(Graph, m2, c2) IN
                        /\ again.ret = last.ret_id
                        /\ again.g.order = order
                        /\ DOMAIN again.g.nodes = DOMAIN nodes
                        /\ pre.order = << >> => Cardinality(DOMAIN again.g.nodes) = 1

\* a first write into the empty graph has returned, and created its node
C1_Witness ==
    \E m \in MetaArgs :
        /\ DidWrite(m, << >>)
        /\ pre.order = << >>
        /\ order = <<last.ret_id>>
        /\ write(Graph, m, << >>).ret = last.ret_id

\* C2: at most one node has any given canonical content key.
C2_OneNodePerKey ==
    \A i \in DOMAIN nodes, j \in DOMAIN nodes :
        node_hash(nodes[i]) = node_hash(nodes[j]) => i = j

\* C3: a write whose key is already in the dedup index leaves the edge set of
\* the node it returns as it was, whatever its connections argument.
C3_DuplicateWriteKeepsEdges ==
    last.op = "write" =>
        \A m \in MetaArgs, c \in ConnArgs(pre) :
            (DidWrite(m, c) /\ get_hash(m) \in DOMAIN pre.map) =>
                nodes[pre.map[get_hash(m)]].edges = pre.nodes[pre.map[get_hash(m)]].edges

\* C4: dedup re-key.  After update(id, m) on an existing node the index maps the
\* key of m to id, write(m) returns id and creates no node, and the old key of
\* the node, when it differs from the new one, does not map to id.
C4_DedupRekey ==
    last.op = "update" =>
        \A id \in DOMAIN pre.nodes, m \in MetaArgs,
           a \in AddArgs(pre), r \in RemoveArgs(pre) :
            DidUpdate(id, m, a, r) =>
                LET new_key == get_hash(m)
                    old_key == node_hash(pre.nodes[id])
                    w == write(Graph, m, << >>)
                IN /\ new_key \in DOMAIN content_hash_to_id_map
                   /\ content_hash_to_id_map[new_key] = id
                   /\ w.ret = id
                   /\ w.g = Graph
                   /\ old_key # new_key =>
                        ~(/\ old_key \in DOMAIN content_hash_to_id_map
                          /\ content_hash_to_id_map[old_key] = id)

\* an update has moved a node from a key the index mapped to it to another key
C4_Witness ==
    \E id \in DOMAIN pre.nodes, m \in MetaArgs :
        /\ DidUpdate(id, m, << >>, << >>)
        /\ node_hash(pre.nodes[id]) # get_hash(m)
        /\ node_hash(pre.nodes[id]) \in DOMAIN pre.map
        /\ pre.map[node_hash(pre.nodes[id])] = id
        /\ content_hash_to_id_map[get_hash(m)] = id

\* C5: when update(id, m) re-keys the index and the old key of the node maps to a
\* different node, that node's entry is still there after the update.
C5_RekeyKeepsOtherNodesEntry ==
    last.op = "update" =>
        \A id \in DOMAIN pre.nodes, m \in MetaArgs,
           a \in AddArgs(pre), r \in RemoveArgs(pre) :
            DidUpdate(id, m, a, r) =>
                LET old_key == node_hash(pre.nodes[id]) IN
                (/\ old_key # get_hash(m)
                 /\ old_key \in DOMAIN pre.map
                 /\ pre.map[old_key] # id) =>
                    /\ old_key \in DOMAIN content_hash_to_id_map
                    /\ content_hash_to_id_map[old_key] = pre.map[old_key]

\* C6: last write wins.  When update(id, m) gives node id a key the index maps to
\* another node j, the index maps the key to id afterwards, and node j is still
\* in the graph with the metadata and the edges it had.
C6_LastWriteWins ==
    last.op = "update" =>
        \A id \in DOMAIN pre.nodes, m \in MetaArgs,
           a \in AddArgs(pre), r \in RemoveArgs(pre) :
            DidUpdate(id, m, a, r) =>
                \A j \in DOMAIN pre.nodes \ {id} :
                    (/\ get_hash(m) \in DOMAIN pre.map
                     /\ pre.map[get_hash(m)] = j) =>
                        /\ content_hash_to_id_map[get_hash(m)] = id
                        /\ j \in DOMAIN nodes
                        /\ nodes[j] = pre.nodes[j]

\* an update has given a node the key the index mapped to another node
C6_Witness ==
    \E id \in DOMAIN pre.nodes, j \in DOMAIN pre.nodes, m \in MetaArgs :
        /\ j # id
        /\ DidUpdate(id, m, << >>, << >>)
        /\ get_hash(m) \in DOMAIN pre.map
        /\ pre.map[get_hash(m)] = j
        /\ content_hash_to_id_map[get_hash(m)] = id

\* C7: edge existence guard.  add_edge(a, b) returns false and changes no edge set
\* when a or b is not a node; when both are nodes it returns true, adds b to the
\* edge set of a and changes no other edge set (no edge b -> a appears).
C7_EdgeExistenceGuard ==
    last.op = "add_edge" =>
        \A a \in IdArgs(pre) \cup {EmptyId}, b \in IdArgs(pre) \cup {EmptyId} :
            DidAddEdge(a, b) =>
                IF a \notin DOMAIN pre.nodes \/ b \notin DOMAIN pre.nodes
                THEN /\ ~last.ret_ok
                     /\ nodes = pre.nodes
                ELSE /\ last.ret_ok
                     /\ DOMAIN nodes = DOMAIN pre.nodes
                     /\ nodes[a].edges = pre.nodes[a].edges \cup {b}
                     /\ \A n \in DOMAIN nodes \ {a} : nodes[n].edges = pre.nodes[n].edges

\* add_edge from a node to an id of no node has returned false
C7_Witness ==
    \E a \in DOMAIN pre.nodes :
        /\ DidAddEdge(a, NoSuchId)
        /\ ~last.ret_ok

\* C8: connection direction.  write(m, [X]) of a new key with X a node creates a
\* node Y with the edge Y -> X and no edge X -> Y: bfs([X], 1) does not hold Y,
\* bfs([Y], 1) holds X.
C8_ConnectionDirection ==
    last.op = "write" =>
        \A m \in MetaArgs, X \in DOMAIN pre.nodes :
            (DidWrite(m, <<X>>) /\ get_hash(m) \notin DOMAIN pre.map) =>
                LET Y == last.ret_id IN
                /\ Y \in DOMAIN nodes \ DOMAIN pre.nodes
                /\ X \in nodes[Y].edges
                /\ Y \notin nodes[X].edges
                /\ \A iter \in IterOrders :
                      /\ Y \notin bfs_exploration(Graph, <<X>>, 1, iter)
                      /\ X \in bfs_exploration(Graph, <<Y>>, 1, iter)

\* a write of a new key with one connection to a node has returned
C8_Witness ==
    \E m \in MetaArgs, X \in DOMAIN pre.nodes :
        /\ DidWrite(m, <<X>>)
        /\ get_hash(m) \notin DOMAIN pre.map
        /\ nodes[last.ret_id].edges = {X}

\* C9: a write of a new key creates the node and returns its id also when its
\* connections name ids of no node; the edge set of the new node is the set of
\* the connection ids that are nodes, and no other id is recorded as an edge.
C9_WriteSkipsMissingConnections ==
    last.op = "write" =>
        \A m \in MetaArgs, c \in ConnArgs(pre) :
            (DidWrite(m, c) /\ get_hash(m) \notin DOMAIN pre.map) =>
                /\ last.ret_id \in DOMAIN nodes \ DOMAIN pre.nodes
                /\ nodes[last.ret_id].id = last.ret_id
                /\ nodes[last.ret_id].edges = Range(c) \cap DOMAIN nodes
                /\ \A n \in DOMAIN pre.nodes : nodes[n] = pre.nodes[n]

\* a write of a new key whose connections name a node and an id of no node has
\* returned
C9_Witness ==
    \E m \in MetaArgs, X \in DOMAIN pre.nodes :
        /\ DidWrite(m, <<NoSuchId, X>>)
        /\ get_hash(m) \notin DOMAIN pre.map
        /\ nodes[last.ret_id].edges = {X}

\* C10: BFS depth bound.  bfs(seeds, d) is a subset of bfs(seeds, d + 1) for every
\* d >= 0, and bfs(seeds, 0) is the set of the seeds.
C10_BfsDepthBound ==
    last.op = "bfs" =>
        /\ \A iter \in IterOrders :
              last.discovered \subseteq
                  bfs_exploration(Graph, last.start_nodes, last.max_depth + 1, iter)
        /\ last.max_depth = 0 => last.discovered = Range(last.start_nodes)

\* a traversal has returned that one more level of depth makes strictly larger
C10_Witness ==
    /\ last.op = "bfs"
    /\ last.max_depth = 1
    /\ Cardinality(last.discovered) > Len(last.start_nodes)
    /\ \E iter \in IterOrders :
          bfs_exploration(Graph, last.start_nodes, 2, iter) # last.discovered

\* the ids within d outgoing edges of a member of S, the members of S included
RECURSIVE ReachWithin(_, _, _)
ReachWithin(g, S, d) ==
    IF d = 0 THEN S
    ELSE LET R == ReachWithin(g, S, d - 1)
         IN R \cup UNION {g.nodes[n].edges : n \in R \cap DOMAIN g.nodes}

\* C11: BFS exactness.  bfs(start_ids, max_depth) is exactly the set of the ids
\* that a path of at most max_depth outgoing edges reaches from a seed, the
\* seeds included, whatever the order in which edge sets are iterated.
C11_BfsExact ==
    last.op = "bfs" =>
        last.discovered = ReachWithin(Graph, Range(last.start_nodes), last.max_depth)

\* a traversal from two seeds has returned a node that is one edge from the
\* second seed and two edges, not one, from the first
C11_Witness ==
    /\ last.op = "bfs"
    /\ Len(last.start_nodes) = 2
    /\ last.max_depth = 1
    /\ \E n \in last.discovered \ Range(last.start_nodes) :
          /\ n \in ReachWithin(Graph, {last.start_nodes[2]}, 1)
          /\ n \notin ReachWithin(Graph, {last.start_nodes[1]}, 1)
          /\ n \in ReachWithin(Graph, {last.start_nodes[1]}, 2)

\* C12: search result bound.  search(q, top_k = k, ...) returns at most k records
\* for every k, and no record when the graph has no nodes.
C12_SearchResultBound ==
    (last.op = "search" /\ ~last.failed) =>
        /\ Len(last.results) <= last.top_k
        /\ DOMAIN nodes = {} => Len(last.results) = 0

\* C13: search on a graph that has nodes with bm25_candidates zero or negative
\* fails: it takes no lexical seeds and returns no result list.
C13_CandidatesMustBePositive ==
    (last.op = "search" /\ DOMAIN nodes # {} /\ last.bm25_candidates <= 0) =>
        last.failed

\* C14: search on a graph that has nodes with top_k zero or negative fails (it
\* returns no result list) and leaves the graph and the lexical index as they were.
C14_TopKMustBePositive ==
    (last.op = "search" /\ DOMAIN nodes # {} /\ last.top_k <= 0) =>
        /\ last.failed
        /\ Graph = pre
        /\ bm25 = pre_bm25

\* C15: when the embedding provider fails in a search on a graph that has nodes,
\* the search fails: it returns no list, empty or partial, and nodes, edges and
\* dedup index are as they were.
C15_ProviderFailurePropagates ==
    (/\ last.op = "search"
     /\ DOMAIN nodes # {}
     /\ last.provider_fails
     /\ SearchCandidates # {}) =>
        /\ last.failed
        /\ last.results = << >>
        /\ Graph = pre

\* a search whose candidates the provider was to embed has failed
C15_Witness ==
    /\ last.op = "search"
    /\ last.provider_fails
    /\ Cardinality(SearchCandidates) >= 2
    /\ last.failed

\* C16: for top_k >= 1 the records are in non-increasing order of score and are
\* the top_k highest-scoring candidates of the BFS candidate set: as many as
\* top_k or as there are candidates, and no candidate left out scores higher
\* than a returned one.
C16_RankedTopK ==
    (last.op = "search" /\ ~last.failed /\ last.top_k >= 1) =>
        LET returned == {last.results[i].id : i \in 1..Len(last.results)}
            score(c) == similarity(last.query, get_text_content(nodes[c]))
        IN /\ \A i, j \in 1..Len(last.results) :
                 i < j => last.results[i].score >= last.results[j].score
           /\ returned \subseteq SearchCandidates
           /\ Cardinality(returned) = Len(last.results)
           /\ Len(last.results) = IF last.top_k < Cardinality(SearchCandidates)
                                   THEN last.top_k ELSE Cardinality(SearchCandidates)
           /\ \A i \in 1..Len(last.results) :
                 last.results[i].score = score(last.results[i].id)
           /\ \A c \in SearchCandidates \ returned, i \in 1..Len(last.results) :
                 score(c) <= last.results[i].score

\* a search has returned the higher-scoring of two candidates and left out the other
C16_Witness ==
    /\ last.op = "search"
    /\ ~last.failed
    /\ last.top_k = 1
    /\ Len(last.results) = 1
    /\ \E c \in SearchCandidates :
          similarity(last.query, get_text_content(nodes[c])) < last.results[1].score

\* C17: records of equal score are in the order in which BFS discovered their
\* nodes: the seeds in seed order, then the neighbours in discovery order.
C17_TiesInDiscoveryOrder ==
    (last.op = "search" /\ ~last.failed) =>
        LET discovery == bfs_discovery_order(pre, SearchSeeds, last.bfs_depth, last.iter)
        IN \A i, j \in 1..Len(last.results) :
              (i < j /\ last.results[i].score = last.results[j].score) =>
                  PositionIn(discovery, last.results[i].id)
                      < PositionIn(discovery, last.results[j].id)

\* C18: ranking stability.  A search returns what the same search (same
\* arguments, same embeddings, same iteration order of sets) returns on the same
\* nodes, metadata and edges when the lexical index is built from them, whatever
\* calls came before it.
C18_RankingStability ==
    (last.op = "search" /\ ~last.failed) =>
        last.results = search(Graph, NoIndex, last.query, last.top_k, last.bfs_depth,
                              last.bm25_candidates, last.iter, last.provider_fails).results

\* C19: every record has the id of a node of the graph, the metadata of that
\* node as it is at the call, and as connections the ids of the edge set of the
\* node, each once.
C19_RecordsAreCurrent ==
    (last.op = "search" /\ ~last.failed) =>
        \A i \in 1..Len(last.results) :
            LET rec == last.results[i] IN
            /\ rec.id \in DOMAIN nodes
            /\ rec.metadata = nodes[rec.id].metadata
            /\ Range(rec.connections) = nodes[rec.id].edges
            /\ Len(rec.connections) = Cardinality(nodes[rec.id].edges)

\* a search has returned the record of a node that has an edge and whose
\* metadata an update has changed since the lexical index was built
C19_Witness ==
    /\ last.op = "search"
    /\ ~last.failed
    /\ pre_bm25.built
    /\ \E i \in 1..Len(last.results) :
          LET rec == last.results[i] IN
          /\ rec.connections # << >>
          /\ rec.metadata = nodes[rec.id].metadata
          /\ rec.id \in Range(pre_bm25.id_list)
          /\ pre_bm25.corpus[PositionIn(pre_bm25.id_list, rec.id)]
                 # tokenize(get_text_content(nodes[rec.id]))

\* C20: update(node_id, ...) with a node_id of no node returns false and changes
\* nothing: the nodes, their metadata and edges and the dedup index are as they
\* were, whatever metadata and connections were passed.
C20_UpdateMissingNode ==
    last.op = "update" =>
        \A m \in MetaOrNone, a \in AddArgs(pre), r \in RemoveArgs(pre) :
            DidUpdate(NoSuchId, m, a, r) =>
                /\ ~last.ret_ok
                /\ nodes = pre.nodes
                /\ order = pre.order
                /\ content_hash_to_id_map = pre.map

\* an update of an id of no node, with metadata and a connection to add to a
\* node, has returned false
C20_Witness ==
    \E m \in MetaArgs, x \in DOMAIN pre.nodes :
        /\ DidUpdate(NoSuchId, m, <<x>>, <<x>>)
        /\ ~last.ret_ok
        /\ get_hash(m) \notin DOMAIN pre.map

\* C21: update(id, add_connections = A) on a node adds the edge id -> t for
\* exactly the t of A that are nodes of the graph: the other ids of A are
\* skipped, the call returns true, and no other node's edges change.
C21_AddConnections ==
    last.op = "update" =>
        \A id \in DOMAIN pre.nodes, m \in MetaOrNone, a \in AddArgs(pre) :
            DidUpdate(id, m, a, << >>) =>
                /\ last.ret_ok
                /\ nodes[id].edges = pre.nodes[id].edges \cup (Range(a) \cap DOMAIN pre.nodes)
                /\ nodes[id].edges \subseteq DOMAIN nodes
                /\ \A n \in DOMAIN nodes \ {id} : nodes[n].edges = pre.nodes[n].edges

\* an update has added an edge to a node that the updated node had no edge to
C21_Witness ==
    \E id \in DOMAIN pre.nodes, t \in DOMAIN pre.nodes :
        /\ DidUpdate(id, NoneMeta, <<t>>, << >>)
        /\ t # id
        /\ t \notin pre.nodes[id].edges
        /\ t \in nodes[id].edges

\* C22: update(id, remove_connections = R) on a node removes from the edge set
\* of id the targets of R that are in it and does nothing for the others; the
\* edges of id that R does not name are kept and no other node's edges change.
C22_RemoveConnections ==
    last.op = "update" =>
        \A id \in DOMAIN pre.nodes, m \in MetaOrNone, r \in RemoveArgs(pre) :
            DidUpdate(id, m, << >>, r) =>
                /\ last.ret_ok
                /\ nodes[id].edges = pre.nodes[id].edges \ Range(r)
                /\ \A n \in DOMAIN nodes \ {id} : nodes[n].edges = pre.nodes[n].edges

\* an update has removed one of the two edges of a node and kept the other
C22_Witness ==
    \E id \in DOMAIN pre.nodes, t \in DOMAIN pre.nodes :
        /\ DidUpdate(id, NoneMeta, << >>, <<t>>)
        /\ t \in pre.nodes[id].edges
        /\ nodes[id].edges = pre.nodes[id].edges \ {t}
        /\ nodes[id].edges # {}

\* C23: update returns true whenever node_id is a node, whatever its other
\* arguments, also when the call changes nothing.
C23_UpdateReturnsTrue ==
    last.op = "update" =>
        \A id \in DOMAIN pre.nodes, m \in MetaOrNone,
           a \in AddArgs(pre), r \in RemoveArgs(pre) :
            DidUpdate(id, m, a, r) => last.ret_ok

\* an update of a node that named a missing id to add and a missing id to
\* remove has changed nothing and returned true
C23_Witness ==
    \E id \in DOMAIN pre.nodes :
        /\ DidUpdate(id, NoneMeta, <<NoSuchId>>, <<NoSuchId>>)
        /\ Graph = pre
        /\ last.ret_ok

\* C24: string normalization.  A node written from the string s stores the
\* mapping {content: s}; s and {content: s} have the same key, so after a write
\* of either the write of the other returns the same id and creates no node;
\* update stores {content: s} for the string s.
C24_StringNormalization ==
    \A s \in {m.str : m \in {x \in MetaArgs : x.kind = "str"}} :
        LET str_form == StrMeta(s)
            dict_form == DictMeta(<< <<"content", s>> >>)
        IN /\ get_hash(str_form) = get_hash(dict_form)
           /\ last.op = "write" =>
                 \A c \in ConnArgs(pre) :
                     /\ (DidWrite(str_form, c) /\ get_hash(str_form) \notin DOMAIN pre.map) =>
                            nodes[last.ret_id].metadata = << <<"content", s>> >>
                     /\ (DidWrite(str_form, c) \/ DidWrite(dict_form, c)) =>
                            /\ write(Graph, dict_form, << >>) = [g |-> Graph, ret |-> last.ret_id]
                            /\ write(Graph, str_form, << >>) = [g |-> Graph, ret |-> last.ret_id]
           /\ last.op = "update" =>
                 \A id \in DOMAIN pre.nodes, a \in AddArgs(pre), r \in RemoveArgs(pre) :
                     DidUpdate(id, str_form, a, r) =>
                         nodes[id].metadata = << <<"content", s>> >>

\* a write of a string has created a node, and the write of the mapping
\* {content: s} would return its id
C24_Witness ==
    \E m \in MetaArgs :
        /\ m.kind = "str"
        /\ DidWrite(m, << >>)
        /\ get_hash(m) \notin DOMAIN pre.map
        /\ write(Graph, DictMeta(<< <<"content", m.str>> >>), << >>).ret = last.ret_id

\* C28: nodes are never deleted and ids never change.  Every node the graph had
\* when a call started is still there under the same id, every node is stored
\* under its own id, the id a write returns is the id of a node, and a node
\* that a write creates has an id that no node had.
C28_IdsOnlyGrow ==
    /\ DOMAIN pre.nodes \subseteq DOMAIN nodes
    /\ \A i \in DOMAIN nodes : nodes[i].id = i
    /\ Range(order) = DOMAIN nodes
    /\ SubSeq(order, 1, Len(pre.order)) = pre.order
    /\ last.op = "write" =>
          /\ last.ret_id \in DOMAIN nodes
          /\ Cardinality(DOMAIN nodes) <= Cardinality(DOMAIN pre.nodes) + 1
          /\ \A m \in MetaArgs, c \in ConnArgs(pre) :
                (DidWrite(m, c) /\ get_hash(m) \notin DOMAIN pre.map) =>
                    /\ last.ret_id \notin DOMAIN pre.nodes
                    /\ Cardinality(DOMAIN nodes) = Cardinality(DOMAIN pre.nodes) + 1

\* a write has created a second node, and the first is still there
C28_Witness ==
    \E m \in MetaArgs :
        /\ DidWrite(m, << >>)
        /\ get_hash(m) \notin DOMAIN pre.map
        /\ DOMAIN pre.nodes # {}
        /\ DOMAIN nodes = DOMAIN pre.nodes \cup {last.ret_id}
        /\ last.ret_id \notin DOMAIN pre.nodes

\* C25: lexical top_k.  For bm25_candidates = k >= 1 on a graph of n >= 1 nodes
\* the lexical query returns min(k, n) distinct node ids, no node left out
\* scores strictly higher than a returned one, and for k >= n it returns every
\* node id.
C25_LexicalTopK ==
    (last.op = "search" /\ DOMAIN nodes # {} /\ last.bm25_candidates >= 1) =>
        LET k == last.bm25_candidates
            n == Cardinality(DOMAIN nodes)
            scores == get_scores(bm25.corpus, tokenize(last.query))
            score(id) == scores[PositionIn(bm25.id_list, id)]
            returned == Range(SearchSeeds)
        IN /\ Len(SearchSeeds) = IF k < n THEN k ELSE n
           /\ Cardinality(returned) = Len(SearchSeeds)
           /\ returned \subseteq DOMAIN nodes
           /\ \A c \in DOMAIN nodes \ returned, r \in returned : score(c) <= score(r)
           /\ k >= n => returned = DOMAIN nodes

\* a lexical query for two ids on three nodes has returned the one node that
\* scores above the others and left out a node that scores lower
C25_Witness ==
    /\ last.op = "search"
    /\ last.bm25_candidates = 2
    /\ Cardinality(DOMAIN nodes) = 3
    /\ Len(SearchSeeds) = 2
    /\ LET scores == get_scores(bm25.corpus, tokenize(last.query)) IN
       \E c \in DOMAIN nodes \ Range(SearchSeeds) :
          \E r \in Range(SearchSeeds) :
             scores[PositionIn(bm25.id_list, c)] < scores[PositionIn(bm25.id_list, r)]

\* C26: the lexical index is rebuilt when its document count differs from the
\* node count (or when there is none), and kept otherwise; after the staleness
\* check of a search its id list is the node ids in insertion order and it has
\* one document per node.
C26_IndexCoversGraph ==
    (last.op = "search" /\ DOMAIN nodes # {}) =>
        /\ bm25.built
        /\ bm25.id_list = order
        /\ Range(bm25.id_list) = DOMAIN nodes
        /\ Len(bm25.corpus) = Cardinality(DOMAIN nodes)
        /\ bm25 = IF ~pre_bm25.built \/ Len(pre_bm25.corpus) # Cardinality(DOMAIN pre.nodes)
                  THEN bm25_setup(pre) ELSE pre_bm25
        /\ Range(SearchSeeds) \subseteq DOMAIN nodes

\* a search has found an index built before the last node was written and has
\* rebuilt it
C26_Witness ==
    /\ last.op = "search"
    /\ pre_bm25.built
    /\ Len(pre_bm25.corpus) < Cardinality(DOMAIN nodes)
    /\ bm25.id_list = order
    /\ bm25 # pre_bm25

\* C27: after an update that replaces the metadata of a node the next search
\* scores every node by the text it has now: the documents of the index the
\* search uses are the tokens of the current texts of the nodes.
C27_UpdateRescored ==
    (last.op = "search" /\ DOMAIN nodes # {}) =>
        bm25.corpus = bm25_setup(Graph).corpus

\* C29: on a graph that has nodes, with top_k >= 1 and bm25_candidates >= 1 and
\* a provider that answers, search returns min(top_k, number of BFS candidates)
\* records, at least one; on a graph of one node search with top_k = 1 returns
\* one record, of that node.
C29_SearchReturnsRecords ==
    (/\ last.op = "search"
     /\ ~last.provider_fails
     /\ DOMAIN nodes # {}
     /\ last.top_k >= 1
     /\ last.bm25_candidates >= 1) =>
        LET c == Cardinality(SearchCandidates) IN
        /\ ~last.failed
        /\ Len(last.results) = IF last.top_k < c THEN last.top_k ELSE c
        /\ Len(last.results) >= 1
        /\ (Cardinality(DOMAIN nodes) = 1 /\ last.top_k = 1) =>
              /\ Len(last.results) = 1
              /\ DOMAIN nodes = {last.results[1].id}

\* a search with top_k = 2 on a graph of several nodes has had one candidate
\* and returned one record
C29_Witness ==
    /\ last.op = "search"
    /\ ~last.failed
    /\ last.top_k = 2
    /\ last.bm25_candidates = 1
    /\ Cardinality(DOMAIN nodes) >= 2
    /\ Cardinality(SearchCandidates) = 1
    /\ Len(last.results) = 1

\* C30: tool-call quota of MemoryToolEnv.  For every counter key and every tool
\* the counter is at most the limit of the tool (N read, M memory_write,
\* P memory_search, U memory_update); a call made when the counter equals the
\* limit returns the calls-exceeded error, does not reach the memory engine and
\* leaves the counters, the graph and the lexical index as they were.
C30_QuotaCap ==
    /\ \A key \in DOMAIN env.counter : \A tool \in DOMAIN env.counter[key] :
          /\ env.counter[key][tool] >= 0
          /\ env.counter[key][tool] <= Limit(env, tool)
    /\ (/\ env.tool # "none"
        /\ env.key \in DOMAIN env.pre_counter
        /\ env.pre_counter[env.key][env.tool] = Limit(env, env.tool)) =>
          /\ env.result = "exceeded"
          /\ ~env.engine_called
          /\ env.counter = env.pre_counter
          /\ Graph = pre
          /\ bm25 = pre_bm25
          /\ last = NoCall

\* a memory_write made after the M >= 1 writes the quota allows has been refused
C30_Witness ==
    /\ env.tool = "memory_write"
    /\ env.M >= 1
    /\ env.key \in DOMAIN env.pre_counter
    /\ env.pre_counter[env.key]["memory_write"] = env.M
    /\ env.result = "exceeded"
    /\ DOMAIN nodes # {}

\* C31: quotas are per episode.  In file mode a memory_write, memory_search or
\* memory_update call that is accepted is counted against the counter of the
\* file of the current episode and changes the counters of no other file; and
\* while the counter of the file of the current episode is below the limit the
\* call is accepted.
C31_QuotaPerEpisode ==
    (/\ ~env.conversation_mode
     /\ env.current_episode # NoFile
     /\ env.tool \in {"memory_write", "memory_search", "memory_update"}) =>
        /\ env.engine_called =>
              /\ env.key = env.current_episode
              /\ \A k \in DOMAIN env.counter \ {env.current_episode} :
                    env.counter[k] = env.pre_counter[k]
        /\ env.pre_counter[env.current_episode][env.tool] < Limit(env, env.tool) =>
              env.engine_called

\* C33: bfs_exploration terminates, on graphs with cycles and self-loops too:
\* its loop runs once per queue entry, a start node is queued once per
\* occurrence in start_nodes, every other node is queued at most once, and so
\* the loop runs at most len(start_nodes) plus the number of nodes times.
C33_BfsTerminates ==
    last.op = "bfs" =>
        \A iter \in IterOrders :
            LET t == bfs_queue_trace(Graph, last.start_nodes, last.max_depth, iter) IN
            /\ t.discovered = last.discovered
            /\ t.pops = Len(t.enqueued)
            /\ Range(t.enqueued) = last.discovered
            /\ \A id \in Range(last.start_nodes) :
                  Occurrences(t.enqueued, id) = Occurrences(last.start_nodes, id)
            /\ \A id \in last.discovered \ Range(last.start_nodes) :
                  Occurrences(t.enqueued, id) = 1
            /\ t.pops <= Len(last.start_nodes) + Cardinality(DOMAIN nodes)

\* a traversal of depth 2 has ended on a graph where the start node and its
\* neighbour are on a cycle and the neighbour has a self-loop
C33_Witness ==
    /\ last.op = "bfs"
    /\ last.max_depth = 2
    /\ Len(last.start_nodes) = 1
    /\ \E n \in DOMAIN nodes \ Range(last.start_nodes) :
          /\ n \in nodes[last.start_nodes[1]].edges
          /\ n \in nodes[n].edges
          /\ last.start_nodes[1] \in nodes[n].edges
          /\ n \in last.discovered

\* C32: bounded memory buffer of memory_env.  The memory string of every file
\* has at most MM characters; after an accepted memory_write it is the last MM
\* characters of the previous memory followed by the memoir, and the memory of
\* the other files is as it was; an accepted memory_read returns the memory
\* and changes none.
C32_BoundedMemory ==
    /\ \A fp \in DOMAIN env.memories : Len(env.memories[fp]) <= env.MM
    /\ env.result = "wrote" =>
          /\ env.memories[env.key] = LastChars(env.pre_memories[env.key] \o env.memoir, env.MM)
          /\ \A fp \in DOMAIN env.memories \ {env.key} :
                env.memories[fp] = env.pre_memories[fp]
    /\ env.result = "memory" =>
          /\ env.output = env.pre_memories[env.key]
          /\ env.memories = env.pre_memories

\* C34: no dangling edges.  In every state reached by write and update calls
\* (and add_edge calls) every id in the edge set of a node is the id of a node.
C34_NoDanglingEdges ==
    \A n \in DOMAIN nodes : nodes[n].edges \subseteq DOMAIN nodes

\* a write with a connections list that names a node and an id of no node has
\* created a node whose one edge is to the node
C34_Witness ==
    \E m \in MetaArgs, t \in DOMAIN pre.nodes :
        /\ DidWrite(m, <<NoSuchId, t>>)
        /\ get_hash(m) \notin DOMAIN pre.map
        /\ nodes[last.ret_id].edges = {t}

\* C35: no dangling or stale dedup entries.  Every entry key -> id of the dedup
\* index names a node, and the key of the metadata that node has now is key.
C35_DedupEntriesCurrent ==
    \A key \in DOMAIN content_hash_to_id_map :
        /\ content_hash_to_id_map[key] \in DOMAIN nodes
        /\ node_hash(nodes[content_hash_to_id_map[key]]) = key

\* an update has changed the key of a node, and the index holds the new key
\* for it and no longer the old one
C35_Witness ==
    \E id \in DOMAIN pre.nodes, m \in MetaArgs :
        /\ DidUpdate(id, m, << >>, << >>)
        /\ node_hash(pre.nodes[id]) # node_hash(nodes[id])
        /\ node_hash(pre.nodes[id]) \notin DOMAIN content_hash_to_id_map
        /\ content_hash_to_id_map[node_hash(nodes[id])] = id

\* C36: dedup coverage.  The key of the metadata of every node is in the dedup
\* index, and writing the metadata of a node creates no node.
C36_DedupCoverage ==
    \A n \in DOMAIN nodes :
        /\ node_hash(nodes[n]) \in DOMAIN content_hash_to_id_map
        /\ write(Graph, DictMeta(nodes[n].metadata), << >>).g.order = order

\* C39: within one update additions are applied before removals: an id that is
\* in add_connections and in remove_connections is not in the edge set of the
\* node afterwards, whether or not it was before.
C39_AddBeforeRemove ==
    last.op = "update" =>
        \A id \in DOMAIN pre.nodes, m \in MetaOrNone,
           a \in AddArgs(pre), r \in RemoveArgs(pre) :
            DidUpdate(id, m, a, r) =>
                /\ \A t \in Range(a) \cap Range(r) : t \notin nodes[id].edges
                /\ nodes[id].edges
                      = (pre.nodes[id].edges \cup (Range(a) \cap DOMAIN pre.nodes)) \ Range(r)

\* an update has named in both lists a node that was not an edge target, and
\* it is not one afterwards
C39_Witness ==
    \E id \in DOMAIN pre.nodes, t \in DOMAIN pre.nodes :
        /\ DidUpdate(id, NoneMeta, <<t>>, <<t>>)
        /\ t \notin pre.nodes[id].edges
        /\ t \notin nodes[id].edges

\* C40: frame of update.  update(id, metadata = m) without connection arguments
\* leaves every edge set and the metadata of every other node as they were and
\* adds no node; update(id, add_connections, remove_connections) without
\* metadata leaves all metadata and the dedup index as they were and changes
\* the edge set of no node but id.
C40_UpdateFrame ==
    last.op = "update" =>
        \A id \in DOMAIN pre.nodes :
            /\ \A m \in MetaArgs :
                  DidUpdate(id, m, << >>, << >>) =>
                      /\ order = pre.order
                      /\ DOMAIN nodes = DOMAIN pre.nodes
                      /\ \A n \in DOMAIN nodes : nodes[n].edges = pre.nodes[n].edges
                      /\ \A n \in DOMAIN nodes \ {id} :
                            nodes[n].metadata = pre.nodes[n].metadata
            /\ \A a \in AddArgs(pre), r \in RemoveArgs(pre) :
                  DidUpdate(id, NoneMeta, a, r) =>
                      /\ order = pre.order
                      /\ DOMAIN nodes = DOMAIN pre.nodes
                      /\ content_hash_to_id_map = pre.map
                      /\ \A n \in DOMAIN nodes : nodes[n].metadata = pre.nodes[n].metadata
                      /\ \A n \in DOMAIN nodes \ {id} : nodes[n].edges = pre.nodes[n].edges

\* an update has replaced the metadata of a node that has an edge, on a graph
\* of two nodes
C40_Witness ==
    \E id \in DOMAIN pre.nodes, m \in MetaArgs :
        /\ DidUpdate(id, m, << >>, << >>)
        /\ nodes[id].metadata # pre.nodes[id].metadata
        /\ nodes[id].edges # {}
        /\ Cardinality(DOMAIN nodes) = 2

\* C37: in a search, whatever top_k and bm25_candidates are, every lexical seed
\* and every candidate handed to semantic_search is a node, so the ranking
\* fails only when the provider fails; every returned id is within bfs_depth
\* outgoing edges of a seed, and no id is returned twice.
C37_CandidatesAreNodes ==
    (last.op = "search" /\ DOMAIN nodes # {}) =>
        LET returned == [i \in 1..Len(last.results) |-> last.results[i].id] IN
        /\ Range(SearchSeeds) \subseteq DOMAIN nodes
        /\ SearchCandidates \subseteq DOMAIN nodes
        /\ last.failed <=> last.provider_fails /\ SearchCandidates # {}
        /\ Range(returned) \subseteq ReachWithin(pre, Range(SearchSeeds), last.bfs_depth)
        /\ \A i, j \in 1..Len(returned) : returned[i] = returned[j] => i = j

\* a search has returned its seed and a node one edge from the seed
C37_Witness ==
    /\ last.op = "search"
    /\ ~last.failed
    /\ Len(SearchSeeds) = 1
    /\ Len(last.results) = 2
    /\ \E i \in 1..2 :
          /\ last.results[i].id \notin Range(SearchSeeds)
          /\ last.results[i].id \in nodes[SearchSeeds[1]].edges

\* C38: search is read-only with respect to the graph: whatever its arguments,
\* and whether or not it fails, it leaves the nodes, their metadata and edges,
\* the insertion order and the dedup index as they were; only the lexical
\* index may change.
C38_SearchReadOnly ==
    last.op = "search" =>
        /\ nodes = pre.nodes
        /\ order = pre.order
        /\ content_hash_to_id_map = pre.map

\* a search has rebuilt the lexical index and returned a record
C38_Witness ==
    /\ last.op = "search"
    /\ bm25 # pre_bm25
    /\ Len(last.results) >= 1
    /\ Graph = pre
====
